---- MODULE Spec2Model ----
(***************************************************************************)
(* Model of generate_schedule (src/app.py, lines 60-139): the study window, *)
(* the proportional demand map, the per-day greedy allocation loop, the    *)
(* round-robin fallback and the (Date, Topic) aggregation.                  *)
(*                                                                         *)
(* Hours are held as integers counting sixteenths of an hour, so that      *)
(* daily_hours values that are not multiples of 0.25 are representable and *)
(* every product, difference and rounding below is exact (sixteenths and   *)
(* their small multiples are exact binary floats as well).                 *)
(* Calendar dates are day ordinals; ordinal 0 is a Monday, so the weekday  *)
(* of date d is d % 7.  A "%Y-%m-%d" string is represented by the ordinal  *)
(* of its date (the format is injective and sorts chronologically).        *)
(* Topic names are represented by naturals whose order stands for the      *)
(* string order pandas sorts group keys by.                                *)
(*                                                                         *)
(* The source computes (w / sum_w) * total in binary floating point; the   *)
(* model computes the same quotient exactly.  The two agree on every input *)
(* within the bounds below (and within the bounds raised by one); for      *)
(* larger inputs the float quotient can fall just below an exact tie       *)
(* (weights 1, 4, 6 over 5 days of 1.375 h: 3.75 becomes 3.7499...).       *)
(***************************************************************************)
EXTENDS Integers, Sequences, FiniteSets

\* ---------------------------------------------------------------- bounds
MaxTopics == 2
MaxSpan == 3
MaxDaily == 12

\* ------------------------------------------------------- units of account
Unit == 16
Quarter == 4
Half == 8

\* a list of n topics uses at most n names
Names == 1..MaxTopics
Topics == [name : Names, difficulty : 1..3, priority : BOOLEAN]

\* names are numbered in order of first use: every topic list is one of these
\* up to a renaming of its topics
FirstUseOrder(ts) ==
    \A i \in 1..Len(ts) : \A k \in 2..ts[i].name : \E j \in 1..(i - 1) : ts[j].name = k - 1

TopicLists == {ts \in UNION {[1..n -> Topics] : n \in 1..MaxTopics} : FirstUseOrder(ts)}
DailyHoursChoices == 1..MaxDaily

VARIABLES
    pc,                     \* position in generate_schedule
    topics,                 \* argument: list of topic dicts
    today,                  \* date.today()
    exam_date,              \* argument
    daily_hours,            \* argument (sixteenths)
    include_weekends,       \* argument
    study_days,             \* list of dates
    total_available_hours,  \* total_days * daily_hours
    remaining_hours,        \* dict, as its list of (key, value) items in insertion order
    schedule_rows,          \* rows appended by the greedy loop
    day_i,                  \* index of the for-loop's current day in study_days
    hours_left,             \* capacity left in the current day
    rows,                   \* rows built by the fallback
    df,                     \* the returned frame
    error                   \* message of the ValueError raised, or "none"

vars == <<pc, topics, today, exam_date, daily_hours, include_weekends, study_days,
          total_available_hours, remaining_hours, schedule_rows, day_i, hours_left,
          rows, df, error>>

\* ------------------------------------------------------------- arithmetic

\* Python 3 round(n / d) for an exact rational n / d with d > 0:
\* nearest integer, ties to the even one.
RoundHalfEven(n, d) ==
    LET q == n \div d
        r == n % d
    IN  IF 2 * r < d THEN q
        ELSE IF 2 * r > d THEN q + 1
        ELSE IF q % 2 = 0 THEN q ELSE q + 1

\* round(x * 4) / 4.0 for x in sixteenths
RoundQuarter(x) == RoundHalfEven(4 * x, Unit) * Quarter

\* round(x * 2) / 2.0 for the rational x = n / d sixteenths
RoundHalf(n, d) == RoundHalfEven(2 * n, d * Unit) * Half

Min(a, b) == IF a <= b THEN a ELSE b

\* ------------------------------------------------------------ dict helpers

Keys(items) == [i \in 1..Len(items) |-> items[i][1]]

HasKey(items, k) == \E i \in 1..Len(items) : items[i][1] = k

Get(items, k) == items[CHOOSE i \in 1..Len(items) : items[i][1] = k][2]

\* d[k] = v : an existing key keeps its position, a new key is appended
SetItem(items, k, v) ==
    IF HasKey(items, k)
    THEN [i \in 1..Len(items) |-> IF items[i][1] = k THEN <<k, v>> ELSE items[i]]
    ELSE Append(items, <<k, v>>)

\* mutant of MaxTopic: the last item holding the largest value
MaxTopicLast(items) ==
    LET i == CHOOSE j \in 1..Len(items) :
                 /\ \A k \in 1..Len(items) : items[k][2] <= items[j][2]
                 /\ \A k \in (j + 1)..Len(items) : items[k][2] < items[j][2]
    IN  items[i][1]

\* max(d.items(), key=lambda x: x[1])[0] : the first item holding the largest value
MaxTopic(items) ==
    LET i == CHOOSE j \in 1..Len(items) :
                 /\ \A k \in 1..Len(items) : items[k][2] <= items[j][2]
                 /\ \A k \in 1..(j - 1) : items[k][2] < items[j][2]
    IN  items[i][1]

\* any(h > 0.249 for h in d.values())
AnyAboveThreshold(items) == \E i \in 1..Len(items) : items[i][2] * 1000 > 249 * Unit

\* ------------------------------------------------------------ study window

\* mutant of Weekday: Sunday counted as day 0
WeekdaySundayFirst(d) == (d + 1) % 7

Weekday(d) == d % 7

\* the while-loop over d = from, from + 1, ... < exam_date
RECURSIVE StudyDaysFrom(_, _, _)
StudyDaysFrom(d, exam, weekends) ==
    IF d < exam
    THEN (IF weekends \/ Weekday(d) < 5 THEN <<d>> ELSE <<>>)
             \o StudyDaysFrom(d + 1, exam, weekends)
    ELSE <<>>

\* ------------------------------------------------------------ demand model

Weight(t) == IF t.priority THEN 2 * t.difficulty ELSE t.difficulty

RECURSIVE SumWeights(_, _)
SumWeights(ts, n) == IF n = 0 THEN 0 ELSE SumWeights(ts, n - 1) + Weight(ts[n])

\* (w / sum_w) * total, rounded to 0.5 hours, at least 0.5
Allocated(w, sum_w, total) ==
    LET a == RoundHalf(w * total, sum_w)
    IN  IF a < Half THEN Half ELSE a

\* the loop filling remaining_hours over the first n topics
RECURSIVE DemandMap(_, _, _)
DemandMap(ts, n, total) ==
    IF n = 0 THEN <<>>
    ELSE SetItem(DemandMap(ts, n - 1, total), ts[n].name,
                 Allocated(Weight(ts[n]), SumWeights(ts, Len(ts)), total))

\* --------------------------------------------------------------- allocator

\* mutant of Alloc: the topic's whole remainder, not capped by hours_left
AllocUncapped(rem, left) == RoundQuarter(rem)

\* mutant of Alloc: the minimum taken as it is, not rounded to 0.25
AllocUnrounded(rem, left) == Min(rem, left)

\* alloc = min(remaining_hours[topic], hours_left), rounded to 0.25
Alloc(rem, left) == RoundQuarter(Min(rem, left))

\* mutant of RemainingAfter: the entry is not decremented
RemainingAfterStale(rem, alloc) == rem

\* mutant of RemainingAfter: the difference rounded to 0.5 instead of 0.25
RemainingAfterHalf(rem, alloc) == RoundHalfEven(2 * (rem - alloc), Unit) * Half

\* remaining_hours[topic] after the row is appended (line 120)
RemainingAfter(rem, alloc) == RoundQuarter(rem - alloc)

\* mutant of HoursLeftAfter: the day's capacity is not decremented
HoursLeftAfterStale(left, alloc) == left

\* hours_left after the row is appended (line 121)
HoursLeftAfter(left, alloc) == RoundQuarter(left - alloc)

\* the while-condition of line 105
LoopCondition(left, items) == left * 4 >= Unit /\ AnyAboveThreshold(items)

\* the loop body reaches schedule_rows.append (neither break of lines 108-114 taken)
Emits(left, items) ==
    /\ LoopCondition(left, items)
    /\ Get(items, MaxTopic(items)) * 4 >= Unit
    /\ Alloc(Get(items, MaxTopic(items)), left) > 0

\* ------------------------------------------------------ fallback and frame

\* mutant of FallbackRows: the first study day is skipped
FallbackRowsSkipFirst(days, names, hours) ==
    [i \in 1..(Len(days) - 1) |->
        [Date |-> days[i + 1], Topic |-> names[(i % Len(names)) + 1], Hours |-> hours]]

\* rows of the round-robin fallback: day i gets topic_names[(i - 1) % len]
FallbackRows(days, names, hours) ==
    [i \in 1..Len(days) |->
        [Date |-> days[i], Topic |-> names[((i - 1) % Len(names)) + 1], Hours |-> hours]]

RECURSIVE SumHours(_, _, _, _)
SumHours(rs, n, d, t) ==
    IF n = 0 THEN 0
    ELSE SumHours(rs, n - 1, d, t)
             + (IF rs[n].Date = d /\ rs[n].Topic = t THEN rs[n].Hours ELSE 0)

GroupKeys(rs) == {<<rs[i].Date, rs[i].Topic>> : i \in 1..Len(rs)}

KeyBefore(a, b) == a[1] < b[1] \/ (a[1] = b[1] /\ a[2] < b[2])

\* the group keys in sorted order
RECURSIVE SortedKeys(_)
SortedKeys(ks) ==
    IF ks = {} THEN <<>>
    ELSE LET m == CHOOSE a \in ks : \A b \in ks \ {a} : KeyBefore(a, b)
         IN  <<m>> \o SortedKeys(ks \ {m})

\* df.groupby(["Date", "Topic"], as_index=False).sum()
GroupBySum(rs) ==
    LET ks == SortedKeys(GroupKeys(rs))
    IN  [i \in 1..Len(ks) |->
            [Date |-> ks[i][1], Topic |-> ks[i][2],
             Hours |-> SumHours(rs, Len(rs), ks[i][1], ks[i][2])]]

\* ------------------------------------------------------------------- Init

Init ==
    /\ pc = "start"
    /\ topics \in TopicLists
    /\ today \in 0..6
    /\ exam_date \in (today - 1)..(today + MaxSpan)
    /\ daily_hours \in DailyHoursChoices
    /\ include_weekends \in BOOLEAN
    /\ study_days = <<>>
    /\ total_available_hours = 0
    /\ remaining_hours = <<>>
    /\ schedule_rows = <<>>
    /\ day_i = 0
    /\ hours_left = 0
    /\ rows = <<>>
    /\ df = <<>>
    /\ error = "none"

\* ---------------------------------------------------------------- actions

\* line 67: the exam is not after today
InvalidWindow == pc = "start" /\ exam_date <= today

\* line 77: the exam is after today and no date of the window is a study day
EmptyWindow ==
    /\ pc = "start"
    /\ ~(exam_date <= today)
    /\ Len(StudyDaysFrom(today, exam_date, include_weekends)) = 0

\* lines 67 and 77 both pass
WindowOK ==
    /\ pc = "start"
    /\ ~(exam_date <= today)
    /\ Len(StudyDaysFrom(today, exam_date, include_weekends)) # 0

\* line 102: the for-loop has a day left
MoreDays == pc = "for" /\ day_i <= Len(study_days)

\* line 102: the for-loop is exhausted
NoMoreDays == pc = "for" /\ day_i > Len(study_days)

\* lines 66-68
RaiseInvalidWindow ==
    /\ InvalidWindow
    /\ pc' = "raised"
    /\ error' = "Exam date must be in the future."
    /\ UNCHANGED <<topics, today, exam_date, daily_hours, include_weekends, study_days,
                   total_available_hours, remaining_hours, schedule_rows, day_i,
                   hours_left, rows, df>>

\* lines 69-78, the window is empty
RaiseEmptyWindow ==
    /\ EmptyWindow
    /\ pc' = "raised"
    /\ error' = "No study days available (check exam date / weekend option)."
    /\ UNCHANGED <<topics, today, exam_date, daily_hours, include_weekends, study_days,
                   total_available_hours, remaining_hours, schedule_rows, day_i,
                   hours_left, rows, df>>

\* lines 69-98: the window, the weights and the demand map
ComputeDemand ==
    /\ WindowOK
    /\ LET days == StudyDaysFrom(today, exam_date, include_weekends)
       IN  /\ study_days' = days
           /\ total_available_hours' = Len(days) * daily_hours
           /\ remaining_hours' = DemandMap(topics, Len(topics), Len(days) * daily_hours)
    /\ day_i' = 1
    /\ pc' = "for"
    /\ UNCHANGED <<topics, today, exam_date, daily_hours, include_weekends,
                   schedule_rows, hours_left, rows, df, error>>

\* lines 102-103: the for-loop takes its next day
StartDay ==
    /\ MoreDays
    /\ hours_left' = daily_hours
    /\ pc' = "while"
    /\ UNCHANGED <<topics, today, exam_date, daily_hours, include_weekends, study_days,
                   total_available_hours, remaining_hours, schedule_rows, day_i,
                   rows, df, error>>

\* lines 105-124: one iteration that appends a row
Allocate ==
    /\ pc = "while"
    /\ Emits(hours_left, remaining_hours)
    /\ LET topic == MaxTopic(remaining_hours)
           alloc == Alloc(Get(remaining_hours, topic), hours_left)
           left  == HoursLeftAfter(hours_left, alloc)
       IN  /\ schedule_rows' = Append(schedule_rows,
                   [Date |-> study_days[day_i], Topic |-> topic, Hours |-> alloc])
           /\ remaining_hours' = SetItem(remaining_hours, topic,
                   RemainingAfter(Get(remaining_hours, topic), alloc))
           /\ hours_left' = left
           /\ IF left * 4 < Unit
              THEN pc' = "for" /\ day_i' = day_i + 1
              ELSE pc' = "while" /\ day_i' = day_i
    /\ UNCHANGED <<topics, today, exam_date, daily_hours, include_weekends, study_days,
                   total_available_hours, rows, df, error>>

\* lines 105-114: the while-condition fails or a break is taken before any append
EndDay ==
    /\ pc = "while"
    /\ ~Emits(hours_left, remaining_hours)
    /\ pc' = "for"
    /\ day_i' = day_i + 1
    /\ UNCHANGED <<topics, today, exam_date, daily_hours, include_weekends, study_days,
                   total_available_hours, remaining_hours, schedule_rows, hours_left,
                   rows, df, error>>

\* lines 126-127, 137-139: the greedy rows are grouped and returned
ReturnGreedy ==
    /\ NoMoreDays
    /\ Len(schedule_rows) # 0
    /\ df' = GroupBySum(schedule_rows)
    /\ pc' = "done"
    /\ UNCHANGED <<topics, today, exam_date, daily_hours, include_weekends, study_days,
                   total_available_hours, remaining_hours, schedule_rows, day_i,
                   hours_left, rows, error>>

\* lines 126-139: no greedy row, the fallback rows are built, grouped and returned
ReturnFallback ==
    /\ NoMoreDays
    /\ Len(schedule_rows) = 0
    /\ rows' = FallbackRows(study_days, Keys(remaining_hours), daily_hours)
    /\ df' = GroupBySum(rows')
    /\ pc' = "done"
    /\ UNCHANGED <<topics, today, exam_date, daily_hours, include_weekends, study_days,
                   total_available_hours, remaining_hours, schedule_rows, day_i,
                   hours_left, error>>

Next ==
    \/ RaiseInvalidWindow
    \/ RaiseEmptyWindow
    \/ ComputeDemand
    \/ StartDay
    \/ Allocate
    \/ EndDay
    \/ ReturnGreedy
    \/ ReturnFallback

Spec == Init /\ [][Next]_vars

\* ------------------------------------------------------- claim vocabulary

Returned == pc = "done"

\* the rows the call emitted, greedy rows first
Emitted == schedule_rows \o rows

RECURSIVE DaySum(_, _, _)
DaySum(rs, n, d) ==
    IF n = 0 THEN 0
    ELSE DaySum(rs, n - 1, d) + (IF rs[n].Date = d THEN rs[n].Hours ELSE 0)

RECURSIVE TopicSum(_, _, _)
TopicSum(rs, n, t) ==
    IF n = 0 THEN 0
    ELSE TopicSum(rs, n - 1, t) + (IF rs[n].Topic = t THEN rs[n].Hours ELSE 0)

RECURSIVE TotalHours(_, _)
TotalHours(rs, n) == IF n = 0 THEN 0 ELSE TotalHours(rs, n - 1) + rs[n].Hours

PositiveQuarterMultiple(h) == h > 0 /\ h % Quarter = 0

\* this step appended a row to schedule_rows
RowEmitted == Len(schedule_rows') = Len(schedule_rows) + 1

LastRow(rs) == rs[Len(rs)]

\* the dates from today (inclusive) to exam_date (exclusive), Saturday and Sunday
\* left out unless weekends are included
WindowDates == {d \in today..(exam_date - 1) : include_weekends \/ d % 7 \notin {5, 6}}

\* the value of a dict entry, by name
Entry(items, k) == Get(items, k)

\* n / d rounded to the nearest integer, ties upwards
RoundHalfUp(n, d) == (2 * n + d) \div (2 * d)

\* the reference entitlement of claim C6 for weight w
ReferenceEntitlement(w, sum_w, total) ==
    LET a == RoundHalfUp(2 * w * total, sum_w * Unit) * Half
    IN  IF a < Half THEN Half ELSE a

\* the demand map has just been built and no row has been emitted yet
DemandJustBuilt == pc = "for" /\ day_i = 1 /\ schedule_rows = <<>>

\* the call has returned or raised
Finished == pc \in {"done", "raised"}

\* the guard of some action holds (each action's effect is defined whenever its
\* guard holds, so this is ENABLED Next)
StepEnabled ==
    \/ InvalidWindow
    \/ EmptyWindow
    \/ WindowOK
    \/ MoreDays
    \/ pc = "while" /\ Emits(hours_left, remaining_hours)
    \/ pc = "while" /\ ~Emits(hours_left, remaining_hours)
    \/ NoMoreDays /\ Len(schedule_rows) # 0
    \/ NoMoreDays /\ Len(schedule_rows) = 0

\* a bound on the steps the call still has to take: the days not yet finished,
\* each worth daily_hours + 2, plus what is left of the current day
Rank ==
    LET perDay == daily_hours + 2
    IN  CASE pc = "start" -> (MaxSpan + 1) * perDay + 2
          [] pc = "for"   -> (Len(study_days) - day_i + 1) * perDay + 1
          [] pc = "while" -> (Len(study_days) - day_i) * perDay + 2 + hours_left
          [] OTHER        -> 0

\* what one step of the greedy loop may do to the demand map
DemandStep ==
    /\ Keys(remaining_hours') = Keys(remaining_hours)
    /\ \A k \in 1..Len(remaining_hours) : remaining_hours'[k][2] <= remaining_hours[k][2]
    /\ RowEmitted =>
          \A k \in 1..Len(remaining_hours) :
              remaining_hours'[k][2] =
                  IF remaining_hours[k][1] = LastRow(schedule_rows').Topic
                  THEN remaining_hours[k][2] - LastRow(schedule_rows').Hours
                  ELSE remaining_hours[k][2]
    /\ (~RowEmitted) => (remaining_hours' = remaining_hours)

\* ------------------------------------------------------------------ claims

\* C1: in the returned frame the hours of every date sum to at most
\* daily_hours plus 0.25, on the greedy path and on the fallback path.
C1_DailyCapacity ==
    Returned =>
        \A i \in 1..Len(df) : DaySum(df, Len(df), df[i].Date) <= daily_hours + Quarter

\* C1 witness: a returned greedy schedule one of whose days sums to more than
\* daily_hours (the tolerance is used).
C1_Witness ==
    /\ Returned
    /\ schedule_rows # <<>>
    /\ \E i \in 1..Len(df) : DaySum(df, Len(df), df[i].Date) > daily_hours

\* C2 (as stated): every Hours value emitted, by the greedy loop or by the
\* fallback, is a positive multiple of 0.25.
C2_Original ==
    \A i \in 1..Len(Emitted) : PositiveQuarterMultiple(Emitted[i].Hours)

\* C2 (amended): every greedy row carries a positive multiple of 0.25; the
\* fallback runs only when daily_hours is below 0.25 and each of its rows carries
\* daily_hours itself.
C2_Amended ==
    /\ \A i \in 1..Len(schedule_rows) : PositiveQuarterMultiple(schedule_rows[i].Hours)
    /\ rows # <<>> =>
          /\ daily_hours < Quarter
          /\ \A i \in 1..Len(rows) : rows[i].Hours = daily_hours /\ rows[i].Hours > 0

\* C2 witness: a greedy row was emitted although daily_hours is no multiple of 0.25.
C2_Witness == schedule_rows # <<>> /\ daily_hours % Quarter # 0

\* C3: the returned frame has at least one row; when the greedy loop emitted
\* nothing the fallback emitted one row per study day.
C3_NonEmpty ==
    Returned =>
        /\ Len(df) >= 1
        /\ schedule_rows = <<>> =>
              /\ Len(rows) = Len(study_days)
              /\ \A i \in 1..Len(rows) : rows[i].Date = study_days[i]

\* C3 witness: the call returned through the fallback.
C3_Witness == Returned /\ schedule_rows = <<>> /\ Len(study_days) >= 1

\* C4 (as stated): the allocation terminates (every step lowers the rank, a
\* natural number, and only a finished call has no step left), and every
\* iteration that emits a row reduces hours_left and the selected topic's
\* remaining hours by at least 0.25.
C4_Original ==
    /\ [](Rank >= 0 /\ (Finished \/ StepEnabled))
    /\ [][Rank' < Rank]_vars
    /\ [][RowEmitted =>
            /\ hours_left' <= hours_left - Quarter
            /\ Entry(remaining_hours', LastRow(schedule_rows').Topic)
                  <= Entry(remaining_hours, LastRow(schedule_rows').Topic) - Quarter]_vars

\* C4 (amended): the allocation terminates (every step lowers the rank, a
\* natural number, and only a finished call has no step left), and every
\* iteration that emits a row reduces the selected topic's remaining hours by at
\* least 0.25 and hours_left by at least 0.125.
C4_Amended ==
    /\ [](Rank >= 0 /\ (Finished \/ StepEnabled))
    /\ [][Rank' < Rank]_vars
    /\ [][RowEmitted =>
            /\ 2 * (hours_left - hours_left') >= Quarter
            /\ Entry(remaining_hours', LastRow(schedule_rows').Topic)
                  <= Entry(remaining_hours, LastRow(schedule_rows').Topic) - Quarter]_vars

\* C4 witness: the call returned after a row that took less than 0.25 off
\* hours_left (the last row of a day that ended with capacity to spare).
C4_Witness ==
    /\ Returned
    /\ \E i \in 1..Len(schedule_rows) :
          /\ schedule_rows[i].Hours = Quarter
          /\ \A j \in 1..Len(schedule_rows) :
                schedule_rows[j].Date = schedule_rows[i].Date => j = i
          /\ daily_hours - RoundQuarter(daily_hours - Quarter) < Quarter

\* C5: when exam_date is not after today, or the window has no date, the call
\* raises and has computed no total, no demand and no row; otherwise it does not
\* raise.
C5_WindowErrors ==
    /\ pc # "start" /\ exam_date <= today =>
          /\ pc = "raised"
          /\ error = "Exam date must be in the future."
    /\ pc # "start" /\ exam_date > today /\ WindowDates = {} =>
          /\ pc = "raised"
          /\ error = "No study days available (check exam date / weekend option)."
    /\ pc = "raised" =>
          /\ exam_date <= today \/ WindowDates = {}
          /\ total_available_hours = 0
          /\ remaining_hours = <<>>
          /\ schedule_rows = <<>> /\ rows = <<>> /\ df = <<>>
    /\ pc \notin {"start", "raised"} =>
          {study_days[i] : i \in 1..Len(study_days)} = WindowDates

\* C5 witness: today is a Saturday, the exam is tomorrow, weekends are excluded,
\* and the empty-window error was raised.
C5_Witness ==
    /\ pc = "raised"
    /\ today % 7 = 5
    /\ exam_date = today + 1
    /\ ~include_weekends
    /\ error = "No study days available (check exam date / weekend option)."

\* C6 (as stated): the initial demand of every topic is its share rounded to the
\* nearest 0.5 hour, ties upwards, and raised to 0.5 when below.  (Topics whose
\* name occurs once, so that the entry is theirs alone.)
C6_HalfUpEntitlement ==
    DemandJustBuilt =>
        \A i \in 1..Len(topics) :
            (\A j \in 1..Len(topics) : topics[j].name = topics[i].name => j = i) =>
                Entry(remaining_hours, topics[i].name)
                    = ReferenceEntitlement(Weight(topics[i]),
                                           SumWeights(topics, Len(topics)),
                                           total_available_hours)

\* C7 (as stated): topics of the same name are independent entries: the demand
\* map holds one entry per topic and no topic's entitlement is overwritten.
C7_IndependentEntries ==
    DemandJustBuilt =>
        /\ Len(remaining_hours) = Len(topics)
        /\ \A i \in 1..Len(topics) :
              Entry(remaining_hours, topics[i].name)
                  = Allocated(Weight(topics[i]), SumWeights(topics, Len(topics)),
                              total_available_hours)

\* C8 (as stated): with one topic the entitlement equals total_available_hours,
\* and on return every row is the topic's, the emitted hours sum to
\* total_available_hours and nothing remains.
C8_Original ==
    Len(topics) = 1 =>
        /\ DemandJustBuilt =>
              Entry(remaining_hours, topics[1].name) = total_available_hours
        /\ Returned =>
              /\ \A i \in 1..Len(Emitted) : Emitted[i].Topic = topics[1].name
              /\ TotalHours(Emitted, Len(Emitted)) = total_available_hours
              /\ Entry(remaining_hours, topics[1].name) = 0

\* the inputs for which the single-topic scenario comes out as stated
C8_Exact ==
    /\ total_available_hours % Half = 0
    /\ daily_hours >= Quarter
    /\ RoundQuarter(daily_hours) >= daily_hours

\* C8 (amended): the same, provided total_available_hours is a multiple of 0.5,
\* daily_hours is at least 0.25 and rounding daily_hours to the nearest 0.25 does
\* not round it down.
C8_Amended ==
    Len(topics) = 1 =>
        /\ DemandJustBuilt /\ total_available_hours % Half = 0 =>
              Entry(remaining_hours, topics[1].name) = total_available_hours
        /\ Returned /\ C8_Exact =>
              /\ \A i \in 1..Len(Emitted) : Emitted[i].Topic = topics[1].name
              /\ TotalHours(Emitted, Len(Emitted)) = total_available_hours
              /\ Entry(remaining_hours, topics[1].name) = 0

\* C8 witness: a single-topic call over several days returned within the
\* amended claim's inputs.
C8_Witness ==
    /\ Returned
    /\ Len(topics) = 1
    /\ C8_Exact
    /\ Len(study_days) >= 2
    /\ Len(schedule_rows) >= 2

\* C9: every greedy row goes to a topic whose remaining hours are the largest
\* of the demand map at that moment, and among several such to the one whose
\* name comes first in the topic list.
C9_MaxFirst ==
    [][RowEmitted =>
          LET t == LastRow(schedule_rows').Topic
              first == CHOOSE i \in 1..Len(topics) :
                          /\ topics[i].name = t
                          /\ \A j \in 1..(i - 1) : topics[j].name # t
          IN  /\ \A j \in 1..Len(topics) :
                    Entry(remaining_hours, topics[j].name) <= Entry(remaining_hours, t)
              /\ \A j \in 1..(first - 1) :
                    Entry(remaining_hours, topics[j].name) < Entry(remaining_hours, t)]_vars

\* C9 witness: the last row went to a topic that was tied with another one when
\* it was selected.
C9_Witness ==
    /\ schedule_rows # <<>>
    /\ \E k \in 1..Len(remaining_hours) :
          /\ remaining_hours[k][1] # LastRow(schedule_rows).Topic
          /\ remaining_hours[k][2]
                = Entry(remaining_hours, LastRow(schedule_rows).Topic)
                      + LastRow(schedule_rows).Hours

\* C10: throughout the greedy loop every entry of the demand map is
\* non-negative and equals its initial entitlement less the hours of the rows
\* emitted for its name; a step that emits a row lowers the selected entry by
\* the row's hours and leaves the others alone; no step raises an entry.
C10_Bookkeeping ==
    /\ [](pc \in {"for", "while", "done"} =>
            LET initial == DemandMap(topics, Len(topics), total_available_hours)
            IN  /\ Keys(remaining_hours) = Keys(initial)
                /\ \A k \in 1..Len(remaining_hours) :
                      /\ remaining_hours[k][2] >= 0
                      /\ initial[k][2] = remaining_hours[k][2]
                            + TopicSum(schedule_rows, Len(schedule_rows),
                                       remaining_hours[k][1]))
    /\ [][(pc \in {"for", "while"}) => DemandStep]_vars

\* C10 witness: inside the loop, rows have been emitted for two different names.
C10_Witness ==
    /\ pc = "while"
    /\ \E i, j \in 1..Len(schedule_rows) : schedule_rows[i].Topic # schedule_rows[j].Topic

====
